---- MODULE Spec2Model ----
(***************************************************************************)
(* perf-review-tool: the ingestion pipeline of parse_csv.py                *)
(* (PerformanceReviewParser) and the response validator of                 *)
(* validate_review.py (ReviewValidator), as a state machine.               *)
(*                                                                         *)
(* Texts are TLA+ strings handled character by character (Len, SubSeq,     *)
(* \o), so that splitting, substring search, case folding and the regular  *)
(* expressions of the source are computed, not assumed.                    *)
(***************************************************************************)
EXTENDS Integers, Sequences, FiniteSets, TLC

VARIABLES
    csv,            \* the table file at csv_path: [header, rows], never written
    raw_data,       \* PerformanceReviewParser.raw_data
    objectives,     \* PerformanceReviewParser.objectives (ordered mapping)
    metadata,       \* PerformanceReviewParser.metadata
    metrics,        \* PerformanceReviewParser.metrics
    technologies,   \* PerformanceReviewParser.technologies (a set)
    returned,       \* the Datasets parse() returned to its caller, as they were when returned
    data,           \* the Dataset the run holds: loaded by the validating run, or
                    \* ReviewGenerator.data
    validator,      \* the ReviewValidator object
    responses,      \* the caller's mapping section name -> response text
    report,         \* what validate_full_review returned last
    checked,        \* what validate_section returned last, with its arguments
    generator,      \* ReviewGenerator: override_role, and what generate() did last
    call,           \* the operation that ran last
    calls,          \* how many parser operations ran
    raised          \* the exception the last operation raised, or "none"

vars == <<csv, raw_data, objectives, metadata, metrics, technologies, returned, data,
          validator, responses, report, checked, generator, call, calls, raised>>

-----------------------------------------------------------------------------
(* Bounds of the model *)

\* how many times parse() / print_summary() are called on one parser
MaxCalls == 2
\* how many sections the caller's responses hold
MaxResponses == 2

-----------------------------------------------------------------------------
(* Python values *)

\* Python's None, as csv.DictReader yields it for the missing fields of a short row
None == "<None>"

Min(S) == CHOOSE x \in S : \A y \in S : x <= y
Max(S) == CHOOSE x \in S : \A y \in S : x >= y

RECURSIVE SumSeq(_)
SumSeq(s) == IF s = <<>> THEN 0 ELSE Head(s) + SumSeq(Tail(s))

RECURSIVE Flatten(_)
Flatten(ss) == IF ss = <<>> THEN <<>> ELSE Head(ss) \o Flatten(Tail(ss))

\* the members of the set S of integers that lie in lo..hi, ascending
RECURSIVE Ascending(_, _, _)
Ascending(S, lo, hi) ==
    IF lo > hi THEN <<>>
    ELSE IF lo = hi THEN (IF lo \in S THEN <<lo>> ELSE <<>>)
    ELSE LET mid == (lo + hi) \div 2
         IN  Ascending(S, lo, mid) \o Ascending(S, mid + 1, hi)

\* the indices of seq s that satisfy Test, in order
SelectIdx(s, Test(_)) == Ascending({i \in 1..Len(s) : Test(i)}, 1, Len(s))

-----------------------------------------------------------------------------
(* str: characters, case, whitespace, substrings *)

Chr(s, i) == SubSeq(s, i, i)

UpperLetters == "ABCDEFGHIJKLMNOPQRSTUVWXYZ"
LowerLetters == "abcdefghijklmnopqrstuvwxyz"
DigitLetters == "0123456789"

CharsOf(s) == {Chr(s, i) : i \in 1..Len(s)}

UpperChars == CharsOf(UpperLetters)
LowerChars == CharsOf(LowerLetters)
DigitChars == CharsOf(DigitLetters)
\* str.split() and \s: whitespace
SpaceChars == {" ", "\t", "\n"}
\* \w of the re module
WordChars == UpperChars \cup LowerChars \cup DigitChars \cup {"_"}

LowerTable == [c \in UpperChars |->
                 Chr(LowerLetters, CHOOSE i \in 1..26 : Chr(UpperLetters, i) = c)]
UpperTable == [c \in LowerChars |->
                 Chr(UpperLetters, CHOOSE i \in 1..26 : Chr(LowerLetters, i) = c)]

LowerChar(c) == IF c \in UpperChars THEN LowerTable[c] ELSE c
UpperChar(c) == IF c \in LowerChars THEN UpperTable[c] ELSE c

\* str.lower(): character by character
RECURSIVE Lower(_)
Lower(s) ==
    IF Len(s) = 0 THEN ""
    ELSE IF Len(s) = 1 THEN LowerChar(s)
    ELSE LET mid == Len(s) \div 2
         IN  Lower(SubSeq(s, 1, mid)) \o Lower(SubSeq(s, mid + 1, Len(s)))

\* str.upper(): character by character
RECURSIVE Upper(_)
Upper(s) ==
    IF Len(s) = 0 THEN ""
    ELSE IF Len(s) = 1 THEN UpperChar(s)
    ELSE LET mid == Len(s) \div 2
         IN  Upper(SubSeq(s, 1, mid)) \o Upper(SubSeq(s, mid + 1, Len(s)))

\* t in s
Contains(s, t) == \E i \in 1..(Len(s) - Len(t) + 1) : SubSeq(s, i, i + Len(t) - 1) = t

\* s.startswith(t)
StartsWith(s, t) == Len(t) <= Len(s) /\ SubSeq(s, 1, Len(t)) = t

\* str.strip()
Strip(s) ==
    LET keep == {i \in 1..Len(s) : Chr(s, i) \notin SpaceChars}
    IN  IF keep = {} THEN "" ELSE SubSeq(s, Min(keep), Max(keep))

\* str.split(): the maximal runs of non-whitespace, in order
Words(s) ==
    LET starts == {i \in 1..Len(s) :
                     /\ Chr(s, i) \notin SpaceChars
                     /\ (i = 1 \/ Chr(s, i - 1) \in SpaceChars)}
        EndOf(i) == LET stop == {j \in i..Len(s) : Chr(s, j) \in SpaceChars}
                    IN  IF stop = {} THEN Len(s) ELSE Min(stop) - 1
        first == Ascending(starts, 1, Len(s))
    IN  [n \in 1..Len(first) |-> SubSeq(s, first[n], EndOf(first[n]))]

\* len(s.split())
WordCount(s) ==
    Cardinality({i \in 1..Len(s) :
                   /\ Chr(s, i) \notin SpaceChars
                   /\ (i = 1 \/ Chr(s, i - 1) \in SpaceChars)})

\* s.split(sep) for a separator that cannot overlap itself (". ")
SplitOn(s, sep) ==
    LET n == Len(sep)
        cuts == Ascending({i \in 1..(Len(s) - n + 1) : SubSeq(s, i, i + n - 1) = sep},
                          1, Len(s))
    IN  [k \in 1..(Len(cuts) + 1) |->
            SubSeq(s, IF k = 1 THEN 1 ELSE cuts[k - 1] + n,
                      IF k > Len(cuts) THEN Len(s) ELSE cuts[k] - 1)]

\* sep.join(parts)
RECURSIVE Join(_, _)
Join(sep, parts) ==
    IF parts = <<>> THEN ""
    ELSE IF Len(parts) = 1 THEN parts[1]
    ELSE parts[1] \o sep \o Join(sep, Tail(parts))

-----------------------------------------------------------------------------
(* re: the fragment of regular expressions the source uses.  A pattern is  *)
(* a sequence of atoms; matching is greedy with backtracking, as in re,    *)
(* always under re.IGNORECASE.                                             *)

Lit(s)      == [t |-> "lit", s |-> s, cs |-> {}, min |-> 0, alts |-> <<>>]
OneOf(cs)   == [t |-> "set", s |-> "", cs |-> cs, min |-> 0, alts |-> <<>>]
Star(cs)    == [t |-> "rep", s |-> "", cs |-> cs, min |-> 0, alts |-> <<>>]
Plus(cs)    == [t |-> "rep", s |-> "", cs |-> cs, min |-> 1, alts |-> <<>>]
Opt(s)      == [t |-> "opt", s |-> s, cs |-> {}, min |-> 0, alts |-> <<>>]
Alt(alts)   == [t |-> "alt", s |-> "", cs |-> {}, min |-> 0, alts |-> alts]
WordB       == [t |-> "b", s |-> "", cs |-> {}, min |-> 0, alts |-> <<>>]

\* the literal lit occurs in text at position i, ignoring case
LitAt(text, i, lit) ==
    /\ i + Len(lit) - 1 <= Len(text)
    /\ Lower(SubSeq(text, i, i + Len(lit) - 1)) = Lower(lit)

\* \b at position i: between text[i-1] and text[i]
AtWordBoundary(text, i) ==
    LET before == i > 1 /\ Chr(text, i - 1) \in WordChars
        after  == i <= Len(text) /\ Chr(text, i) \in WordChars
    IN  before # after

\* the length of the run of characters of class cs that starts at i
RunLen(text, i, cs) ==
    LET stop == {j \in i..Len(text) : Chr(text, j) \notin cs}
    IN  IF stop = {} THEN Len(text) - i + 1 ELSE Min(stop) - i

\* Matching atoms k.. of pat at position i of text: the position after the
\* match, or 0 when there is none.
RECURSIVE MatchFrom(_, _, _, _)
RECURSIVE TryRep(_, _, _, _, _)
RECURSIVE TryAlt(_, _, _, _, _)
MatchFrom(pat, k, text, i) ==
    IF k > Len(pat) THEN i
    ELSE LET a == pat[k] IN
         CASE a.t = "lit" ->
                IF LitAt(text, i, a.s) THEN MatchFrom(pat, k + 1, text, i + Len(a.s)) ELSE 0
           [] a.t = "set" ->
                IF i <= Len(text) /\ Chr(text, i) \in a.cs
                THEN MatchFrom(pat, k + 1, text, i + 1) ELSE 0
           [] a.t = "rep" -> TryRep(pat, k, text, i, RunLen(text, i, a.cs))
           [] a.t = "opt" ->
                LET taken == IF LitAt(text, i, a.s)
                             THEN MatchFrom(pat, k + 1, text, i + Len(a.s)) ELSE 0
                IN  IF taken # 0 THEN taken ELSE MatchFrom(pat, k + 1, text, i)
           [] a.t = "alt" -> TryAlt(pat, k, text, i, 1)
           [] a.t = "b" ->
                IF AtWordBoundary(text, i) THEN MatchFrom(pat, k + 1, text, i) ELSE 0

\* greedy repetition: n characters, then fewer
TryRep(pat, k, text, i, n) ==
    IF n < pat[k].min THEN 0
    ELSE LET r == MatchFrom(pat, k + 1, text, i + n)
         IN  IF r # 0 THEN r ELSE TryRep(pat, k, text, i, n - 1)

\* ordered alternation: alternative j, then the later ones
TryAlt(pat, k, text, i, j) ==
    IF j > Len(pat[k].alts) THEN 0
    ELSE LET lit == pat[k].alts[j]
             r == IF LitAt(text, i, lit)
                  THEN MatchFrom(pat, k + 1, text, i + Len(lit)) ELSE 0
         IN  IF r # 0 THEN r ELSE TryAlt(pat, k, text, i, j + 1)

NoMatch == [start |-> 0, end |-> 0]

\* re.search(pat, text) from position from: the leftmost match
Search(pat, text, from) ==
    LET starts == {i \in from..(Len(text) + 1) : MatchFrom(pat, 1, text, i) # 0}
    IN  IF starts = {} THEN NoMatch
        ELSE [start |-> Min(starts), end |-> MatchFrom(pat, 1, text, Min(starts))]

\* match.group(0)
Group0(text, m) == SubSeq(text, m.start, m.end - 1)

\* re.finditer(pat, text): the non-overlapping matches, left to right
RECURSIVE FindIter(_, _, _)
FindIter(pat, text, from) ==
    LET m == Search(pat, text, from)
    IN  IF m = NoMatch THEN <<>>
        ELSE <<m>> \o FindIter(pat, text, IF m.end = m.start THEN m.end + 1 ELSE m.end)

-----------------------------------------------------------------------------
(* dict: a row of the table, as csv.DictReader builds it *)

\* row.get(key, default)
Get(row, key, default) == IF key \in DOMAIN row THEN row[key] ELSE default

\* how an f-string renders a value
Fmt(v) == IF v = None THEN "None" ELSE v

Range(s) == {s[i] : i \in 1..Len(s)}

\* csv.DictReader: one dict per non-empty line, keyed by the header; the
\* fields a short line lacks are None (restval).  Values beyond the header go
\* under the key None, which nothing reads: they are left out.
DictRow(header, line) ==
    [k \in Range(header) |->
        LET i == CHOOSE j \in 1..Len(header) : header[j] = k
        IN  IF i <= Len(line) THEN line[i] ELSE None]

-----------------------------------------------------------------------------
(* PerformanceReviewParser *)

\* the parser object, as the record its methods transform; exc is the
\* exception that ended the method, "none" while it is running normally
Self == [raw_data |-> raw_data, objectives |-> objectives, metadata |-> metadata,
         metrics |-> metrics, technologies |-> technologies, exc |-> "none"]

NoMetadata == [present |-> FALSE, owner |-> "", owner_email |-> "", team |-> "", role |-> ""]

\* __init__
NewParser == [raw_data |-> <<>>, objectives |-> <<>>, metadata |-> NoMetadata,
              metrics |-> <<>>, technologies |-> {}, exc |-> "none"]

Raise(self, e) == [self EXCEPT !.exc = e]

\* _read_csv
read_csv(self, file) ==
    IF ~file.exists THEN Raise(self, "FileNotFoundError")
    ELSE [self EXCEPT !.raw_data =
            LET lines == SelectIdx(file.rows, LAMBDA i : file.rows[i] # <<>>)
            IN  [n \in 1..Len(lines) |-> DictRow(file.header, file.rows[lines[n]])]]

\* the six role patterns of _infer_role, in the order of the list
role_patterns == <<
    <<WordB, Lit("sd"), OneOf({"1", "2", "3"}), WordB>>,
    <<WordB, Lit("sde"), Star(SpaceChars), OneOf({"1", "2", "3"}), WordB>>,
    <<WordB, Lit("staff"), Plus(SpaceChars), Lit("engineer"), WordB>>,
    <<WordB, Lit("senior"), Plus(SpaceChars), Lit("engineer"), WordB>>,
    <<WordB, Lit("lead"), Plus(SpaceChars), Lit("engineer"), WordB>>,
    <<WordB, Lit("principal"), Plus(SpaceChars), Lit("engineer"), WordB>> >>

\* the text _infer_role searches
RoleText(row) == Lower(Fmt(Get(row, "Owner", "")) \o " " \o Fmt(Get(row, "Title", "")))

\* as infer_role below, with the match that starts leftmost in the text winning
RoleLeftmost(row) ==
    LET text == Lower(Fmt(Get(row, "Owner", "")) \o " " \o Fmt(Get(row, "Title", "")))
        found == {k \in 1..Len(role_patterns) : Search(role_patterns[k], text, 1) # NoMatch}
        StartOf(k) == Search(role_patterns[k], text, 1).start
    IN  IF found = {} THEN "UNKNOWN"
        ELSE LET k == CHOOSE x \in found : \A y \in found :
                          StartOf(x) < StartOf(y) \/ (StartOf(x) = StartOf(y) /\ x <= y)
             IN  Upper(Group0(text, Search(role_patterns[k], text, 1)))

\* the loop of _infer_role from pattern k on: the first pattern that matches wins
RECURSIVE RoleFrom(_, _)
RoleFrom(text, k) ==
    IF k > Len(role_patterns) THEN "UNKNOWN"
    ELSE LET m == Search(role_patterns[k], text, 1)
         IN  IF m # NoMatch THEN Upper(Group0(text, m)) ELSE RoleFrom(text, k + 1)

\* _infer_role
infer_role(row) == RoleFrom(RoleText(row), 1)

\* _extract_metadata
extract_metadata(self) ==
    IF self.raw_data = <<>> THEN self
    ELSE LET first_row == self.raw_data[1]
             owner == Get(first_row, "Owner", "")
             email == Get(first_row, "Owner Email", "")
             team  == Get(first_row, "Teams", "")
         IN  IF None \in {owner, email, team} THEN Raise(self, "AttributeError")
             ELSE [self EXCEPT !.metadata =
                     [present |-> TRUE, owner |-> Strip(owner), owner_email |-> Strip(email),
                      team |-> Strip(team), role |-> infer_role(first_row)]]

\* objectives: an insertion-ordered mapping, a sequence of [key, items]
ObjKeys(o) == [i \in 1..Len(o) |-> o[i].key]
ObjHas(o, k) == \E i \in 1..Len(o) : o[i].key = k
ObjItems(o, k) == IF ObjHas(o, k) THEN o[CHOOSE i \in 1..Len(o) : o[i].key = k].items ELSE <<>>

\* self.objectives[parent].append(item), on a defaultdict(list)
ObjAppend(o, k, item) ==
    IF ObjHas(o, k)
    THEN [i \in 1..Len(o) |-> IF o[i].key = k
                              THEN [key |-> k, items |-> Append(o[i].items, item)]
                              ELSE o[i]]
    ELSE Append(o, [key |-> k, items |-> <<item>>])

\* as Objective, with a state made up for a row that has none
ObjectiveDefaultState(row, title) ==
    [title |-> title, state |-> Get(row, "State", "Open"), start_date |-> Get(row, "Start Date", ""),
     due_date |-> Get(row, "Due Date", ""), progress |-> Get(row, "Progress %", "0"),
     status |-> Get(row, "Status", "")]

\* the Objective built from a row
Objective(row, title) ==
    [title |-> title, state |-> Get(row, "State", ""), start_date |-> Get(row, "Start Date", ""),
     due_date |-> Get(row, "Due Date", ""), progress |-> Get(row, "Progress %", "0"),
     status |-> Get(row, "Status", "")]

\* the loop of _group_objectives from row i on
RECURSIVE GroupFrom(_, _)
GroupFrom(self, i) ==
    IF i > Len(self.raw_data) THEN self
    ELSE LET row == self.raw_data[i]
             parent == Get(row, "Parent Objective Title", "")
             title  == Get(row, "Title", "")
         IN  IF parent = None \/ title = None THEN Raise(self, "AttributeError")
             ELSE IF Strip(title) # "" /\ Strip(parent) # ""
                  THEN GroupFrom([self EXCEPT !.objectives =
                                     ObjAppend(@, Strip(parent), Objective(row, Strip(title)))],
                                 i + 1)
                  ELSE GroupFrom(self, i + 1)

\* _group_objectives
group_objectives(self) == GroupFrom(self, 1)

\* stands for the two non-ASCII characters that follow the digits in the
\* source's multiplier pattern
MultSign == "#x"

unit_alts == <<"s", "ms", "hr", "hrs", "hours", "minutes", "mins">>

\* the eight patterns of _extract_metrics, in the order of the list
metric_patterns == <<
    \* (\d+\.?\d*)\s*%\s+to\s+(\d+\.?\d*)\s*%
    <<Plus(DigitChars), Opt("."), Star(DigitChars), Star(SpaceChars), Lit("%"),
      Plus(SpaceChars), Lit("to"), Plus(SpaceChars),
      Plus(DigitChars), Opt("."), Star(DigitChars), Star(SpaceChars), Lit("%")>>,
    \* (\d+)\s*(s|ms|hr|hrs|hours|minutes|mins)\s+to\s+(\d+)\s*(s|ms|...)
    <<Plus(DigitChars), Star(SpaceChars), Alt(unit_alts),
      Plus(SpaceChars), Lit("to"), Plus(SpaceChars),
      Plus(DigitChars), Star(SpaceChars), Alt(unit_alts)>>,
    \* Rs\s+(\d+)\s+to\s+Rs\s+(\d+)
    <<Lit("Rs"), Plus(SpaceChars), Plus(DigitChars),
      Plus(SpaceChars), Lit("to"), Plus(SpaceChars),
      Lit("Rs"), Plus(SpaceChars), Plus(DigitChars)>>,
    \* (\d+\.\d+\.\d+)\s+to\s+(\d+\.\d+\.\d+)
    <<Plus(DigitChars), Lit("."), Plus(DigitChars), Lit("."), Plus(DigitChars),
      Plus(SpaceChars), Lit("to"), Plus(SpaceChars),
      Plus(DigitChars), Lit("."), Plus(DigitChars), Lit("."), Plus(DigitChars)>>,
    \* (\d+)\+?\s+(events|dependencies|items|files|repositories|repos)
    <<Plus(DigitChars), Opt("+"), Plus(SpaceChars),
      Alt(<<"events", "dependencies", "items", "files", "repositories", "repos">>)>>,
    \* ~?(\d+)<sign>\s+(faster|slower|more|less)
    <<Opt("~"), Plus(DigitChars), Lit(MultSign), Plus(SpaceChars),
      Alt(<<"faster", "slower", "more", "less">>)>>,
    \* ~?(\d+\.?\d*)\s*%
    <<Opt("~"), Plus(DigitChars), Opt("."), Star(DigitChars), Star(SpaceChars), Lit("%")>>,
    \* (?:by|reduced)\s+(\d+)\s*%
    <<Alt(<<"by", "reduced">>), Plus(SpaceChars), Plus(DigitChars), Star(SpaceChars),
      Lit("%")>> >>

\* the Metric entries one pattern yields on one title, left to right
\* (text and full_context; the captured groups are a function of the two)
MetricsOf(pattern, title) ==
    LET ms == FindIter(pattern, title, 1)
    IN  [n \in 1..Len(ms) |-> [text |-> Group0(title, ms[n]), full_context |-> title]]

\* the inner loop of _extract_metrics: every pattern, in order, on one title
TitleMetrics(title) ==
    Flatten([k \in 1..Len(metric_patterns) |-> MetricsOf(metric_patterns[k], title)])

\* the outer loop of _extract_metrics from row i on
RECURSIVE MetricsFrom(_, _)
MetricsFrom(self, i) ==
    IF i > Len(self.raw_data) THEN self
    ELSE LET title == Get(self.raw_data[i], "Title", "")
         IN  IF title = None THEN Raise(self, "TypeError")
             ELSE MetricsFrom([self EXCEPT !.metrics = @ \o TitleMetrics(title)], i + 1)

\* _extract_metrics
extract_metrics(self) == MetricsFrom(self, 1)

tech_keywords == <<
    "React Native", "MMKV", "Databricks", "Mixpanel", "AsyncStorage",
    "Fabric", "TurboModules", "Protobufs", "Crashlytics", "SDK",
    "DigiLocker", "Acko", "ZeptoLocker", "AETHER", "Horizon",
    "CleverTap", "AppsFlyer", "KNOW SDK", "HyperVerge", "Lucid",
    "ClickHouse", "Kafka", "LogChef", "Storybook", "Fresco",
    "pdfplumber", "native-stack", "KeyboardController",
    "PagerView", "Android", "iOS", "TypeScript", "JavaScript",
    "Python", "Node.js", "API", "JWT", "OAuth" >>

\* as SearchLiteral, without re.IGNORECASE
SearchLiteralExact(tech, all_text) == Contains(all_text, tech)

\* re.search(re.escape(tech), all_text, re.IGNORECASE)
SearchLiteral(tech, all_text) == Search(<<Lit(tech)>>, all_text, 1) # NoMatch

\* _extract_technologies
extract_technologies(self) ==
    LET titles == [i \in 1..Len(self.raw_data) |-> Get(self.raw_data[i], "Title", "")]
    IN  IF None \in Range(titles) THEN Raise(self, "TypeError")
        ELSE LET all_text == Join(" ", titles)
             IN  [self EXCEPT !.technologies =
                     @ \cup {tech \in Range(tech_keywords) : SearchLiteral(tech, all_text)}]

\* _generate_summary
generate_summary(self) ==
    [total_objectives |-> SumSeq([i \in 1..Len(self.objectives) |-> Len(self.objectives[i].items)]),
     categories |-> ObjKeys(self.objectives),
     category_counts |-> [i \in 1..Len(self.objectives) |->
                            [key |-> self.objectives[i].key,
                             count |-> Len(self.objectives[i].items)]],
     metrics_count |-> Len(self.metrics),
     technologies_count |-> Cardinality(self.technologies)]

\* the characters of the model's texts in the order of their code points
\* (the order sorted() uses)
Ascii == " #%+-.0123456789ABCDEFGHIJKLMNOPQRSTUVWXYZ_abcdefghijklmnopqrstuvwxyz~"
Code(c) == CHOOSE i \in 1..Len(Ascii) : Chr(Ascii, i) = c

\* a < b on str
StrLess(a, b) ==
    \E i \in 1..(Len(b)) :
        /\ i - 1 <= Len(a)
        /\ SubSeq(a, 1, i - 1) = SubSeq(b, 1, i - 1)
        /\ (i > Len(a) \/ Code(Chr(a, i)) < Code(Chr(b, i)))

\* sorted(list(S)) for a set of str
RECURSIVE Sorted(_)
Sorted(S) ==
    IF S = {} THEN <<>>
    ELSE LET least == CHOOSE x \in S : \A y \in S \ {x} : StrLess(x, y)
         IN  <<least>> \o Sorted(S \ {least})

\* a method's steps run in order until one raises
Then(self, Step(_)) == IF self.exc # "none" THEN self ELSE Step(self)

\* the statements of parse() before its return
ParseSteps(self, file) ==
    Then(Then(Then(Then(read_csv(self, file),
        extract_metadata), group_objectives), extract_metrics), extract_technologies)

\* the Dataset parse() returns
Dataset(self) ==
    [metadata |-> self.metadata, objectives |-> self.objectives, metrics |-> self.metrics,
     technologies |-> Sorted(self.technologies), summary |-> generate_summary(self)]

\* The i-th Dataset parse() returned, as its holder reads it now: the dict
\* holds the parser's own metrics list and the parser's own list of each
\* category (dict(self.objectives) copies the keys alone); its technologies
\* and its summary were built for it.
Held(i) ==
    [returned[i] EXCEPT
        !.metrics = metrics,
        !.objectives = [k \in 1..Len(@) |->
                           [key |-> @[k].key, items |-> ObjItems(objectives, @[k].key)]]]

\* print_summary, once the objectives are there: self.metadata['owner'] raises
\* KeyError when metadata is {}
PrintLines(self) ==
    IF self.exc = "none" /\ ~self.metadata.present THEN Raise(self, "KeyError") ELSE self

\* print_summary: parses when no objective is held, then prints
print_summary(self, file) ==
    PrintLines(IF self.objectives = <<>> THEN ParseSteps(self, file) ELSE self)

-----------------------------------------------------------------------------
(* ReviewValidator *)

NoValidator == [constructed |-> FALSE, metrics_texts |-> <<>>, technologies |-> <<>>,
                role |-> "", team |-> ""]

\* __init__: data['metadata']['role'] raises KeyError when metadata is {}
NewValidator(dataset) ==
    IF ~dataset.metadata.present THEN NoValidator
    ELSE [constructed |-> TRUE,
          metrics_texts |-> [i \in 1..Len(dataset.metrics) |-> dataset.metrics[i].text],
          technologies |-> dataset.technologies,
          role |-> dataset.metadata.role,
          team |-> dataset.metadata.team]

\* the running result of validate_section
Fresh == [errors |-> <<>>, warnings |-> <<>>, quality_score |-> 100]

Error(acc, msg, penalty) ==
    [acc EXCEPT !.errors = Append(@, msg), !.quality_score = @ - penalty]
Warning(acc, msg, penalty) ==
    [acc EXCEPT !.warnings = Append(@, msg), !.quality_score = @ - penalty]

\* as CheckLength, with 40 words still too short
CheckLengthInclusive(acc, response) ==
    LET word_count == WordCount(response)
    IN  IF word_count <= 40
        THEN Error(acc, "Response too short (" \o ToString(word_count)
                        \o " words). Need at least 60 words.", 20)
        ELSE IF word_count < 60
        THEN Warning(acc, "Response is short (" \o ToString(word_count)
                          \o " words). Aim for 80-150 words.", 5)
        ELSE IF word_count > 200
        THEN Warning(acc, "Response is long (" \o ToString(word_count)
                          \o " words). Consider condensing to under 180 words.", 5)
        ELSE acc

\* as CheckLength, with every response under 60 words an error
CheckLengthOneThreshold(acc, response) ==
    LET word_count == WordCount(response)
    IN  IF word_count < 60
        THEN Error(acc, "Response too short (" \o ToString(word_count)
                        \o " words). Need at least 60 words.", 20)
        ELSE IF word_count > 200
        THEN Warning(acc, "Response is long (" \o ToString(word_count)
                          \o " words). Consider condensing to under 180 words.", 5)
        ELSE acc

\* Check 1: length validation
CheckLength(acc, response) ==
    LET word_count == WordCount(response)
    IN  IF word_count < 40
        THEN Error(acc, "Response too short (" \o ToString(word_count)
                        \o " words). Need at least 60 words.", 20)
        ELSE IF word_count < 60
        THEN Warning(acc, "Response is short (" \o ToString(word_count)
                          \o " words). Aim for 80-150 words.", 5)
        ELSE IF word_count > 200
        THEN Warning(acc, "Response is long (" \o ToString(word_count)
                          \o " words). Consider condensing to under 180 words.", 5)
        ELSE acc

\* as CheckRole, with the role looked for in any case
CheckRoleAnyCase(acc, v, response) ==
    IF v.role # "UNKNOWN" /\ ~Contains(Lower(response), Lower(v.role))
    THEN Error(acc, "Response must mention role: '" \o v.role \o "'", 15)
    ELSE acc

\* Check 2: role mention
CheckRole(acc, v, response) ==
    IF v.role # "UNKNOWN" /\ ~Contains(response, v.role)
    THEN Error(acc, "Response must mention role: '" \o v.role \o "'", 15)
    ELSE acc

\* Check 2: team mention
CheckTeam(acc, v, response) ==
    IF v.team # "" /\ ~Contains(response, v.team)
    THEN Error(acc, "Response must mention team: '" \o v.team \o "'", 15)
    ELSE acc

\* Check 3: opening phrase
CheckOpening(acc, response) ==
    IF ~StartsWith(response, "As an") /\ ~StartsWith(response, "As a")
    THEN Warning(acc, "Response should start with 'As an [ROLE] in the [TEAM] Team...'", 10)
    ELSE acc

metric_sections == <<"Engineering/Operation Excellence", "Tech Initiatives", "Impact",
                     "Ambiguity & Problem Complexity">>

\* sum(1 for x in xs if x in response)
CountIn(xs, response) == Cardinality({i \in 1..Len(xs) : Contains(response, xs[i])})

\* as CheckMetrics, with the two warnings tested one after the other
CheckMetricsBoth(acc, v, section_name, response) ==
    IF section_name \in Range(metric_sections) /\ v.metrics_texts # <<>>
    THEN LET metrics_found == CountIn(v.metrics_texts, response)
             first == IF metrics_found = 0
                      THEN Warning(acc, "No metrics found. Include specific numbers to strengthen the response.", 10)
                      ELSE acc
         IN  IF metrics_found < 2
             THEN Warning(first, "Consider adding more specific metrics for stronger impact.", 5)
             ELSE first
    ELSE acc

\* Check 4: metrics, in the metric-heavy sections
CheckMetrics(acc, v, section_name, response) ==
    IF section_name \in Range(metric_sections) /\ v.metrics_texts # <<>>
    THEN LET metrics_found == CountIn(v.metrics_texts, response)
         IN  IF metrics_found = 0
             THEN Warning(acc, "No metrics found. Include specific numbers to strengthen the response.", 10)
             ELSE IF metrics_found < 2
             THEN Warning(acc, "Consider adding more specific metrics for stronger impact.", 5)
             ELSE acc
    ELSE acc

\* generic_phrases, in the order of the dict
generic_phrases == <<
    [phrase |-> "various projects",      suggestion |-> "Be specific about which projects"],
    [phrase |-> "multiple times",        suggestion |-> "Specify how many times or give examples"],
    [phrase |-> "several initiatives",   suggestion |-> "Name the initiatives"],
    [phrase |-> "numerous improvements", suggestion |-> "Quantify the improvements"],
    [phrase |-> "enhanced quality",      suggestion |-> "Specify how quality was enhanced"],
    [phrase |-> "improved performance",  suggestion |-> "Use specific metrics"],
    [phrase |-> "increased efficiency",  suggestion |-> "Quantify the efficiency gain"],
    [phrase |-> "better experience",     suggestion |-> "Describe what improved"] >>

\* Check 5: the loop over generic_phrases from entry k on; lowered is
\* response.lower()
RECURSIVE GenericFrom(_, _, _)
GenericFrom(acc, lowered, k) ==
    IF k > Len(generic_phrases) THEN acc
    ELSE LET g == generic_phrases[k]
         IN  IF Contains(lowered, Lower(g.phrase))
             THEN GenericFrom(Warning(acc, "Generic phrase detected: '" \o g.phrase \o "'. "
                                           \o g.suggestion \o ".", 3),
                              lowered, k + 1)
             ELSE GenericFrom(acc, lowered, k + 1)

CheckGeneric(acc, response) == GenericFrom(acc, Lower(response), 1)

tech_sections == <<"Tech Initiatives", "Engineering/Operation Excellence", "Roadmap Delivery">>

\* Check 6: technology mentions, in the tech sections
CheckTech(acc, v, section_name, response) ==
    IF /\ section_name \in Range(tech_sections)
       /\ v.technologies # <<>>
       /\ CountIn(v.technologies, response) = 0
    THEN Warning(acc, "No specific technologies mentioned. Reference actual tools/frameworks used.", 8)
    ELSE acc

\* the sentences that are not blank, in order
NonBlank(sentences) ==
    LET idx == SelectIdx(sentences, LAMBDA i : Strip(sentences[i]) # "")
    IN  [n \in 1..Len(idx) |-> sentences[idx[n]]]

\* Check 7: sentence structure variety
CheckVariety(acc, response) ==
    LET sentences == SplitOn(response, ". ")
        kept == NonBlank(sentences)
        sentence_lengths == [n \in 1..Len(kept) |-> WordCount(kept[n])]
    IN  IF Len(sentences) >= 3 /\ Cardinality(Range(sentence_lengths)) < 2
        THEN Warning(acc, "Vary sentence lengths for better readability.", 3)
        ELSE acc

\* Check 8: repetitive sentence starts
CheckStarts(acc, response) ==
    LET kept == NonBlank(SplitOn(response, ". "))
        sentence_starts == [n \in 1..Len(kept) |-> Words(Strip(kept[n]))[1]]
    IN  IF /\ Len(sentence_starts) > 2
           /\ Len(sentence_starts) # Cardinality(Range(sentence_starts))
        THEN Warning(acc, "Avoid starting multiple sentences with the same word.", 5)
        ELSE acc

\* as CheckData, over the technology sections
CheckDataTechSections(acc, section_name, response) ==
    LET has_data == \E i \in 1..Len(response) : Chr(response, i) \in DigitChars
    IN  IF ~has_data /\ section_name \in Range(tech_sections)
        THEN Warning(acc, "Include specific numbers or metrics to demonstrate impact.", 10)
        ELSE acc

\* Check 9: data-driven language
CheckData(acc, section_name, response) ==
    LET has_data == \E i \in 1..Len(response) : Chr(response, i) \in DigitChars
    IN  IF ~has_data /\ section_name \in Range(metric_sections)
        THEN Warning(acc, "Include specific numbers or metrics to demonstrate impact.", 10)
        ELSE acc

passive_indicators == <<"was implemented", "were created", "was developed", "were completed">>

\* Check 10: active voice
CheckPassive(acc, response) ==
    LET lowered == Lower(response)
        passive_count ==
            Cardinality({i \in 1..Len(passive_indicators) :
                           Contains(lowered, Lower(passive_indicators[i]))})
    IN  IF passive_count > 2
        THEN Warning(acc, "Use active voice for stronger impact (e.g., 'I implemented' vs 'was implemented').", 5)
        ELSE acc

\* as RunChecks, with the passive voice checked before the numeric evidence
RunChecksPassiveEarly(v, section_name, response) ==
    LET c1  == CheckLength(Fresh, response)
        c2  == CheckRole(c1, v, response)
        c3  == CheckTeam(c2, v, response)
        c4  == CheckOpening(c3, response)
        c5  == CheckMetrics(c4, v, section_name, response)
        c6  == CheckGeneric(c5, response)
        c7  == CheckTech(c6, v, section_name, response)
        c8  == CheckVariety(c7, response)
        c9  == CheckStarts(c8, response)
        c10 == CheckPassive(c9, response)
    IN  CheckData(c10, section_name, response)

\* the checks of validate_section, in order; quality_score is not yet clamped
RunChecks(v, section_name, response) ==
    LET c1  == CheckLength(Fresh, response)
        c2  == CheckRole(c1, v, response)
        c3  == CheckTeam(c2, v, response)
        c4  == CheckOpening(c3, response)
        c5  == CheckMetrics(c4, v, section_name, response)
        c6  == CheckGeneric(c5, response)
        c7  == CheckTech(c6, v, section_name, response)
        c8  == CheckVariety(c7, response)
        c9  == CheckStarts(c8, response)
        c10 == CheckData(c9, section_name, response)
    IN  CheckPassive(c10, response)

\* as Clamp, without the clamp
ClampMissing(quality_score) == quality_score

\* max(0, quality_score)
Clamp(quality_score) == IF quality_score > 0 THEN quality_score ELSE 0

\* return errors, warnings, max(0, quality_score)
Return(acc) ==
    [errors |-> acc.errors, warnings |-> acc.warnings, score |-> Clamp(acc.quality_score)]

\* validate_section
validate_section(v, section_name, response) == Return(RunChecks(v, section_name, response))

\* as IsEmptyResponse, without the strip
IsEmptyUnstripped(response) == response = None \/ response = ""

\* not response or not response.strip()
IsEmptyResponse(response) == response = None \/ response = "" \/ Strip(response) = ""

\* as SectionStatus, with the boundaries exclusive
SectionStatusExclusive(score) ==
    IF score > 90 THEN "EXCELLENT"
    ELSE IF score > 75 THEN "GOOD"
    ELSE IF score > 60 THEN "NEEDS_WORK"
    ELSE "POOR"

\* the status of a section that was validated
SectionStatus(score) ==
    IF score >= 90 THEN "EXCELLENT"
    ELSE IF score >= 75 THEN "GOOD"
    ELSE IF score >= 60 THEN "NEEDS_WORK"
    ELSE "POOR"

\* results[section_name] of an empty response
EmptyResult == [errors |-> <<"Section is empty">>, warnings |-> <<>>, score |-> 0,
                status |-> "ERROR"]

\* the locals of validate_full_review before its loop
NoTotals == [results |-> <<>>, total_score |-> 0, total_sections |-> 0,
             all_errors |-> <<>>, all_warnings |-> <<>>]

\* the loop body of validate_full_review once the section has its result r:
\* the entry of results, and the totals
Tally(acc, section_name, response, r) ==
    [results |-> Append(acc.results,
                   [name |-> section_name,
                    result |-> [errors |-> r.errors, warnings |-> r.warnings,
                                score |-> r.score, status |-> SectionStatus(r.score),
                                word_count |-> WordCount(response)]]),
     total_score |-> acc.total_score + r.score,
     total_sections |-> acc.total_sections + 1,
     all_errors |-> acc.all_errors \o r.errors,
     all_warnings |-> acc.all_warnings \o r.warnings]

\* the loop body of validate_full_review on an empty response
Skip(acc, section_name) ==
    [acc EXCEPT !.results = Append(@, [name |-> section_name, result |-> EmptyResult])]

\* as ValidateOne, with an empty section counted as a section of score 0
ValidateOneCountingEmpty(v, acc, section_name, response) ==
    IF IsEmptyResponse(response)
    THEN [Skip(acc, section_name) EXCEPT !.total_sections = @ + 1]
    ELSE Tally(acc, section_name, response, validate_section(v, section_name, response))

\* one iteration of the loop of validate_full_review
ValidateOne(v, acc, section_name, response) ==
    IF IsEmptyResponse(response)
    THEN Skip(acc, section_name)
    ELSE Tally(acc, section_name, response, validate_section(v, section_name, response))

\* the loop of validate_full_review over the first n entries of resp
RECURSIVE ValidateUpTo(_, _, _)
ValidateUpTo(v, resp, n) ==
    IF n = 0 THEN NoTotals
    ELSE ValidateOne(v, ValidateUpTo(v, resp, n - 1), resp[n].section, resp[n].response)

\* round(total / n, 1), in tenths: the float total/n is rounded to the nearest
\* tenth, and a tie (an exact quarter, which a float holds exactly) to the even one
RoundTenths(total, n) ==
    LET q == (10 * total) \div n
        r == (10 * total) % n
    IN  IF 2 * r < n THEN q
        ELSE IF 2 * r > n THEN q + 1
        ELSE IF q % 2 = 0 THEN q ELSE q + 1

\* 'average_score': round(avg_score, 1), in tenths
AverageScore(total_score, total_sections) ==
    IF total_sections > 0 THEN RoundTenths(total_score, total_sections) ELSE 0

\* 'overall_status', from the unrounded avg_score
OverallStatus(total_score, total_sections) ==
    LET avg_num == IF total_sections > 0 THEN total_score ELSE 0
        avg_den == IF total_sections > 0 THEN total_sections ELSE 1
    IN  IF avg_num >= 90 * avg_den THEN "EXCELLENT"
        ELSE IF avg_num >= 75 * avg_den THEN "GOOD"
        ELSE "NEEDS_IMPROVEMENT"

\* the dict validate_full_review returns, from the totals t of its loop
Report(t) ==
    [sections |-> t.results,
     summary |-> [average_score |-> AverageScore(t.total_score, t.total_sections),
                  total_errors |-> Len(t.all_errors),
                  total_warnings |-> Len(t.all_warnings),
                  sections_validated |-> t.total_sections,
                  overall_status |-> OverallStatus(t.total_score, t.total_sections)]]

\* validate_full_review
validate_full_review(v, resp) == Report(ValidateUpTo(v, resp, Len(resp)))

\* no report yet
NoReport == [sections |-> <<>>,
             summary |-> [average_score |-> 0, total_errors |-> 0, total_warnings |-> 0,
                          sections_validated |-> 0, overall_status |-> ""]]

-----------------------------------------------------------------------------
(* PromptTemplates._format_metrics *)

\* s[:n]
FirstN(s, n) == SubSeq(s, 1, IF Len(s) < n THEN Len(s) ELSE n)

\* the entry of one metric: its text and the first 80 characters of its title
MetricLine(metric) ==
    "- " \o metric.text \o " (from: " \o FirstN(metric.full_context, 80) \o "...)"

\* the locals of _format_metrics before its loop
NothingFormatted == [formatted |-> <<>>, seen |-> {}]

\* as FormatOne, without the test on seen
FormatOneKeepingAll(acc, metric) ==
    [formatted |-> Append(acc.formatted, MetricLine(metric)),
     seen |-> acc.seen \cup {metric.text}]

\* one iteration of the loop of _format_metrics
FormatOne(acc, metric) ==
    IF metric.text \notin acc.seen
    THEN [formatted |-> Append(acc.formatted, MetricLine(metric)),
          seen |-> acc.seen \cup {metric.text}]
    ELSE acc

\* the loop of _format_metrics over the first n metrics
RECURSIVE FormatUpTo(_, _)
FormatUpTo(metrics_list, n) ==
    IF n = 0 THEN NothingFormatted
    ELSE FormatOne(FormatUpTo(metrics_list, n - 1), metrics_list[n])

\* _format_metrics
format_metrics(metrics_list) ==
    IF metrics_list = <<>> THEN "No quantitative metrics found."
    ELSE Join("\n", FirstN(FormatUpTo(metrics_list, Len(metrics_list)).formatted, 15))

-----------------------------------------------------------------------------
(* ReviewGenerator *)

\* __init__, and nothing generated yet
NoGenerator == [override_role |-> None, asked |-> FALSE, answer |-> None,
                prompt_metrics |-> None]

\* the truth value of an Optional[str]
Truthy(v) == v # None /\ v # ""

\* if self.override_role: self.data['metadata']['role'] = self.override_role
OverrideRole(md, override_role) ==
    IF Truthy(override_role) THEN [md EXCEPT !.role = override_role] ELSE md

\* the dict has the key 'role': every metadata the parser extracted has it,
\* and the {} of an empty table has it once a role was assigned to it
HasRole(md) == md.present \/ md.role # ""

\* as AnswerRole, with the default SD1
AnswerRoleDefaultSD1(md, line) ==
    [md EXCEPT !.role = IF Strip(line) # "" THEN Strip(line) ELSE "SD1"]

\* role = input(...).strip(); the role is the answer, or "SD2" for an empty one
AnswerRole(md, line) ==
    [md EXCEPT !.role = IF Strip(line) # "" THEN Strip(line) ELSE "SD2"]

\* how generate() leaves the generator and its parser; self.data holds the
\* parser's own metadata dict
Outcome(self, d, asked, answer, prompt_metrics, exc) ==
    [parser |-> [self EXCEPT !.metadata = d.metadata, !.exc = exc],
     data |-> d, asked |-> asked, answer |-> answer, prompt_metrics |-> prompt_metrics]

\* _display_summary, then the prompts of the sections with the metrics
\* formatted in them: self.data['metadata']['owner'] raises KeyError on the
\* metadata of an empty table
Prompts(self, d, asked, answer) ==
    IF ~d.metadata.present THEN Outcome(self, d, asked, answer, None, "KeyError")
    ELSE Outcome(self, d, asked, answer, format_metrics(d.metrics), "none")

\* the check of the role and the question to the user; line is what input()
\* returns, None when the input is at its end
AskRole(self, d, line) ==
    IF ~HasRole(d.metadata) THEN Outcome(self, d, FALSE, None, None, "KeyError")
    ELSE IF d.metadata.role # "UNKNOWN" THEN Prompts(self, d, FALSE, None)
    ELSE IF line = None THEN Outcome(self, d, TRUE, None, None, "EOFError")
    ELSE Prompts(self, [d EXCEPT !.metadata = AnswerRole(@, line)], TRUE, line)

\* generate() once parse() left the parser as parsed: held is self.data
\* before the call
generate(parsed, held, override_role, line) ==
    IF parsed.exc # "none"
    THEN [parser |-> parsed, data |-> held, asked |-> FALSE, answer |-> None,
          prompt_metrics |-> None]
    ELSE AskRole(parsed, [Dataset(parsed) EXCEPT !.metadata = OverrideRole(@, override_role)],
                 line)

-----------------------------------------------------------------------------
(* Inputs: the tables at csv_path and the response texts *)

Header == <<"Owner", "Owner Email", "Teams", "Title", "Parent Objective Title", "State">>

File(rows) == [exists |-> TRUE, header |-> Header, rows |-> rows]

\* no file at csv_path
TableMissing == [exists |-> FALSE, header |-> <<>>, rows |-> <<>>]
\* a header and no data row
TableEmpty == File(<<>>)
\* one objective with metrics and a technology; role and team known
TableMain ==
    File(<< <<"Ann SD2", "ann@x", "Pay", "Cut API latency 10s to 250ms by 9%", "Impact", "Done">> >>)
\* no role, no team, no parent category, no metric, no technology
TablePlain == File(<< <<"Bob", "bob@x", "", "Mentor new hires", "", "Open">> >>)
\* a complete row, then a row shorter than the header
TableShort ==
    File(<< <<"Cy SDE 3", "cy@x", "Ops", "Ship 48 dependencies", "Growth", "Done">>,
            <<"Cy SDE 3">> >>)
\* categories that repeat, identical titles, blank titles and parents, an empty line
TableGroups ==
    File(<< <<"Di Staff Engineer", "di@x", "Core", "Adopt Kafka", " Impact ", "Done">>,
            <<"Di", "di@x", "Core", "Reach 99.4% to 99.73%", "Growth", "Open">>,
            <<>>,
            <<"Di", "di@x", "Core", "Adopt Kafka", "Impact", "Open">>,
            <<"Di", "di@x", "Core", "  ", "Impact", "Open">>,
            <<"Di", "di@x", "Core", "No parent", " ", "Open">>,
            <<"Di", "di@x", "Core", "Tune iOS build", "Growth", "Done">> >>)

\* the texts role inference meets in Owner and Title
RoleFrags == {"", "SD2", "sd1", "sde 3", "SDE1", "Staff Engineer", "senior  engineer",
              "Lead\tEngineer", "Principal Engineer", "xsd2", "sd22", "engineering"}

\* one-row tables over every pair of role texts
RoleTables ==
    {File(<< <<owner, "o@x", "Core", title, "Impact", "Open">> >>) :
        owner \in RoleFrags, title \in RoleFrags}

\* two objectives whose titles hold the same metric text
TableTwin ==
    File(<< <<"Eve SD3", "eve@x", "Web", "Cut cost 9%", "Impact", "Done">>,
            <<"Eve SD3", "eve@x", "Web", "Cut time 9%", "Impact", "Done">> >>)

\* a metric in the title and no parent category: no objective is grouped
TableNoParent == File(<< <<"Ann SD2", "ann@x", "Pay", "Cut latency by 9%", "", "Done">> >>)
\* a table without the column State
TableNarrow ==
    [exists |-> TRUE,
     header |-> <<"Owner", "Owner Email", "Teams", "Title", "Parent Objective Title">>,
     rows |-> << <<"Flo", "flo@x", "Ops", "Ship it", "Impact">> >>]
\* technologies in other cases than the vocabulary spells them
TableTech ==
    File(<< <<"Gus", "gus@x", "Core", "Adopt kafka", "Impact", "Done">>,
            <<"Gus", "gus@x", "Core", "Tune iOS api", "Impact", "Open">> >>)

\* a title that is one percentage range, and a title that repeats a metric text
TableRange ==
    File(<< <<"Hal SD1", "hal@x", "Data", "99.4% to 99.73%", "Impact", "Done">>,
            <<"Hal SD1", "hal@x", "Data", "Up 9% and 9% by 9%", "Impact", "Open">> >>)

\* the tables of the ingestion runs
IngestTables ==
    {TableMissing, TableEmpty, TableMain, TablePlain, TableShort, TableGroups,
     TableNoParent, TableNarrow, TableTech, TableRange} \cup RoleTables

\* the tables whose Datasets are validated against
Tables == {TableEmpty, TableMain, TablePlain}

\* the parser after n calls of parse() on the table file
RECURSIVE ParseTimes(_, _)
ParseTimes(file, n) ==
    IF n = 0 THEN NewParser ELSE Then(ParseTimes(file, n - 1), LAMBDA self : ParseSteps(self, file))

\* s * n
RECURSIVE Rep(_, _)
Rep(s, n) ==
    IF n = 0 THEN ""
    ELSE IF n = 1 THEN s
    ELSE Rep(s, n \div 2) \o Rep(s, n - n \div 2)

Opening == "As an SD2 in the Pay Team"
Evidence == " I cut API latency by 9% from 10s to 250ms"

\* 60 words, opening, role, team, two metrics, a technology
TextGood == Opening \o Evidence \o Rep(" w", 43)
\* the same without the opening phrase
TextNoOpening == "I am an SD2 in the Pay Team" \o Evidence \o Rep(" w", 42)
\* exactly 45 words, neither role nor team
Text45 == "As a" \o Rep(" w", 43)
\* 201 words
TextLong == TextGood \o Rep(" w", 141)
\* 45 words with two generic phrases
TextTwoGeneric == Opening \o " on various projects multiple times" \o Rep(" w", 33)
\* 12 words with two generic phrases
TextShortGeneric == Opening \o " on various projects multiple times"
\* 60 words, the role but neither team nor opening
TextRoleOnly == "I am an SD2" \o Rep(" w", 56)
\* 60 words, no role, team or opening
TextBare == "I" \o Rep(" w", 59)
\* 60 words, opening, one generic phrase, no role or team
TextOneGeneric == "As a dev on various projects" \o Rep(" w", 54)
\* every penalised condition at once
TextSaturated ==
    "various projects. multiple times. several initiatives. numerous improvements. "
    \o "enhanced quality. improved performance. increased efficiency. better experience. "
    \o "was implemented. were created. was developed"

Texts == {"", "  ", TextGood, TextNoOpening, Text45, TextLong, TextTwoGeneric,
          TextShortGeneric, TextRoleOnly, TextBare, TextOneGeneric, TextSaturated}

\* the tables whose Datasets the single sections are validated against
SectionTables == {TableMain, TablePlain, TableTwin}

\* n words, without role, team or opening phrase
WordsText(n) == "I" \o Rep(" w", n - 1)

\* the role and the team in another case
TextLowerRole == "as an sd2 in the pay team" \o Rep(" w", 53)
\* exactly one of the metric texts of TableMain and of TableTwin
TextOneMetric == "I cut it 9%" \o Rep(" w", 56)
\* one passive phrase three times
TextPassiveRepeated ==
    "It was implemented. Then it was implemented again. At last it was implemented" \o Rep(" w", 47)
\* three of the passive phrases, in upper case
TextPassiveUpper == "A WAS IMPLEMENTED. Bb cc WERE CREATED. Dd WAS DEVELOPED x" \o Rep(" w", 49)
\* two of the passive phrases
TextPassiveTwo == "A was implemented. Bb cc were created. Dd ee ff gg" \o Rep(" w", 51)
\* three sentences of two words
TextEven == "Aa bb. Cc dd. Ee ff"
\* three pieces of which one is blank, the other two of two words
TextBlankPiece == "Aa bb. . Cc dd"
\* three sentences of different lengths
TextUneven == "Aa bb. Cc dd ee. Ff"
\* two sentences of two words
TextTwoSentences == "Aa bb. Cc dd"

SectionTexts ==
    {WordsText(39), WordsText(40), WordsText(59), WordsText(60), WordsText(200), WordsText(201),
     TextGood, TextRoleOnly, TextLowerRole, TextOneMetric, TextSaturated, TextLong,
     TextPassiveRepeated, TextPassiveUpper, TextPassiveTwo,
     TextEven, TextBlankPiece, TextUneven, TextTwoSentences}

\* a metric section, a metric and technology section, a technology section, neither
SectionNames == {"Impact", "Tech Initiatives", "Roadmap Delivery", "Mentorship"}

\* ReviewGenerator.SECTIONS, the order in which the sections of a review come
SECTIONS == <<"Engineering/Operation Excellence", "Roadmap Delivery", "Raising the Bar",
              "Mentorship", "Tech Initiatives", "Scope & Influence",
              "Ambiguity & Problem Complexity", "Execution", "Impact",
              "Culture & Founder Mentality", "What are your areas of strength?",
              "What are your areas of development?">>

SectionNumber(section_name) == CHOOSE i \in 1..Len(SECTIONS) : SECTIONS[i] = section_name

\* seventeen distinct metric texts, two of them twice
TableMany ==
    File(<< <<"Ira SD2", "ira@x", "Ads", "1% 2% 3% 4% 5% 6% 7% 8% 9% 1%", "Impact", "Done">>,
            <<"Ira SD2", "ira@x", "Ads", "2% 10% 11% 12% 13% 14% 15% 16% 17%", "Impact",
              "Open">> >>)
\* a title of more than 80 characters
TableLong ==
    File(<< <<"Jo", "jo@x", "Ads", "Cut 9%" \o Rep(" w", 40), "Impact", "Done">> >>)
\* a metric text that holds a line break
TableBreak == File(<< <<"Kim SD3", "kim@x", "Ads", "Up 9\n% now", "Impact", "Done">> >>)

\* the tables of the generating runs
GenerateTables ==
    {TableMissing, TableEmpty, TableMain, TablePlain, TableShort, TableTwin, TableRange,
     TableMany, TableLong, TableBreak}

\* the --role argument: absent, empty, a role, the sentinel
Overrides == {None, "", "SD3", "UNKNOWN"}

\* what the user answers to the question for a role; None: the input is at its end
Lines == {None, "", "  ", " SD1 ", "Lead Engineer", "UNKNOWN"}

\* the sections the runs answer: tech-only, neither, metric and tech
Sections == {"Roadmap Delivery", "Mentorship", "Tech Initiatives"}

-----------------------------------------------------------------------------
(* The state machine *)

NoData == [metadata |-> NoMetadata, objectives |-> <<>>, metrics |-> <<>>,
           technologies |-> <<>>,
           summary |-> [total_objectives |-> 0, categories |-> <<>>, category_counts |-> <<>>,
                        metrics_count |-> 0, technologies_count |-> 0]]

\* validate_section was not called yet
NoCheck == [section |-> "", response |-> "", errors |-> <<>>, warnings |-> <<>>, score |-> 0]

\* a parser just constructed on file, nothing loaded, no validator, and the
\* generator g
Begin(file, g) ==
    /\ csv = file
    /\ raw_data = NewParser.raw_data
    /\ objectives = NewParser.objectives
    /\ metadata = NewParser.metadata
    /\ metrics = NewParser.metrics
    /\ technologies = NewParser.technologies
    /\ returned = <<>>
    /\ validator = NoValidator
    /\ responses = <<>>
    /\ report = NoReport
    /\ checked = NoCheck
    /\ generator = g
    /\ call = "init"
    /\ calls = 0
    /\ raised = "none"

\* a run without a generator
Start(file) == Begin(file, NoGenerator)

\* parse_csv.py: a parser on one of the tables
InitIngest == \E file \in IngestTables : Start(file) /\ data = NoData

\* validate_review.py: data is a Dataset that parse() returned, from its
\* first call or a later one, on one of the tables
Init ==
    \E file \in Tables, n \in 1..MaxCalls :
        \E parser \in {ParseTimes(file, n)} :
            /\ parser.exc = "none"
            /\ Start(file)
            /\ data = Dataset(parser)

\* a Dataset that parse() returned on one of the tables of the section checks
InitSection ==
    \E file \in SectionTables, n \in 1..MaxCalls :
        \E parser \in {ParseTimes(file, n)} :
            /\ parser.exc = "none"
            /\ Start(file)
            /\ data = Dataset(parser)

\* generate_review.py: a generator on one of the tables, with or without a
\* role from its caller
InitGenerate ==
    \E file \in GenerateTables, role \in Overrides :
        Begin(file, [NoGenerator EXCEPT !.override_role = role]) /\ data = NoData

\* the parser's fields after a method left it as self
SetParser(self) ==
    /\ raw_data' = self.raw_data
    /\ objectives' = self.objectives
    /\ metadata' = self.metadata
    /\ metrics' = self.metrics
    /\ technologies' = self.technologies
    /\ raised' = self.exc

\* data = parser.parse()
Parse ==
    /\ calls < MaxCalls
    /\ \E self \in {ParseSteps(Self, csv)} :
           /\ SetParser(self)
           /\ returned' = IF self.exc = "none" THEN Append(returned, Dataset(self))
                          ELSE returned
    /\ call' = "parse"
    /\ calls' = calls + 1
    /\ UNCHANGED <<csv, checked, generator, data, validator, responses, report>>

\* parser.print_summary()
PrintSummary ==
    /\ calls < MaxCalls
    /\ SetParser(print_summary(Self, csv))
    /\ call' = "print_summary"
    /\ calls' = calls + 1
    /\ UNCHANGED <<csv, checked, generator, returned, data, validator, responses, report>>

\* validator = ReviewValidator(data)
Construct ==
    /\ call = "init"
    /\ validator' = NewValidator(data)
    /\ raised' = IF data.metadata.present THEN "none" ELSE "KeyError"
    /\ call' = "ReviewValidator"
    /\ UNCHANGED <<csv, checked, generator, raw_data, objectives, metadata, metrics, technologies, returned,
                   data, responses, report, calls>>

\* the responses file holds one more section, in the order of SECTIONS
AddResponse(section_name, response) ==
    /\ call = "init"
    /\ Len(responses) < MaxResponses
    /\ \A i \in 1..Len(responses) :
           SectionNumber(responses[i].section) < SectionNumber(section_name)
    /\ responses' = Append(responses, [section |-> section_name, response |-> response])
    /\ UNCHANGED <<csv, checked, generator, raw_data, objectives, metadata, metrics, technologies, returned,
                   data, validator, report, call, calls, raised>>

\* results = validator.validate_full_review(responses)
Validate ==
    /\ call = "ReviewValidator"
    /\ validator.constructed
    /\ report' = validate_full_review(validator, responses)
    /\ call' = "validate_full_review"
    /\ raised' = "none"
    /\ UNCHANGED <<csv, checked, generator, raw_data, objectives, metadata, metrics, technologies, returned,
                   data, validator, responses, calls>>

\* errors, warnings, score = validator.validate_section(section_name, response)
ValidateSection(section_name, response) ==
    /\ call = "ReviewValidator"
    /\ validator.constructed
    /\ \E r \in {validate_section(validator, section_name, response)} :
           checked' = [section |-> section_name, response |-> response,
                       errors |-> r.errors, warnings |-> r.warnings, score |-> r.score]
    /\ call' = "validate_section"
    /\ raised' = "none"
    /\ UNCHANGED <<csv, generator, raw_data, objectives, metadata, metrics, technologies,
                   returned, data, validator, responses, report, calls>>

\* responses = generator.generate(); line is what the user answers if asked
Generate ==
    /\ calls < MaxCalls
    /\ \E parsed \in {ParseSteps(Self, csv)} : \E line \in Lines :
           \E out \in {generate(parsed, data, generator.override_role, line)} :
               /\ SetParser(out.parser)
               /\ data' = out.data
               /\ generator' = [generator EXCEPT !.asked = out.asked, !.answer = out.answer,
                                                !.prompt_metrics = out.prompt_metrics]
               /\ returned' = IF parsed.exc = "none" THEN Append(returned, Dataset(parsed))
                              ELSE returned
    /\ call' = "generate"
    /\ calls' = calls + 1
    /\ UNCHANGED <<csv, checked, validator, responses, report>>

NextIngest == Parse \/ PrintSummary

NextGenerate == Generate

Next ==
    \/ Construct
    \/ \E section_name \in Sections, response \in Texts : AddResponse(section_name, response)
    \/ Validate

\* one section at a time: a validator on a Dataset, then validate_section
NextSection ==
    \/ Construct
    \/ \E section_name \in SectionNames, response \in SectionTexts :
           ValidateSection(section_name, response)

Spec == Init /\ [][Next]_vars
SpecIngest == InitIngest /\ [][NextIngest]_vars
SpecSection == InitSection /\ [][NextSection]_vars
SpecGenerate == InitGenerate /\ [][NextGenerate]_vars

-----------------------------------------------------------------------------
(* The claims *)

Validated == call = "validate_full_review"

\* the sections of the report, by their position in responses
Answered == 1..Len(report.sections)
ResultOf(i) == report.sections[i].result
ResponseOf(i) == responses[i].response

\* the response holds a character that is not whitespace
NotBlank(response) == \E i \in 1..Len(response) : Chr(response, i) \notin SpaceChars

\* 100 minus the penalties the checks sum up for section i
Unclamped(i) == RunChecks(validator, responses[i].section, ResponseOf(i)).quality_score

\* C1: every score validation reports is an integer in 0..100, and it is 0
\* whenever the summed penalties exceed 100.
C1_ScoreInRange ==
    Validated =>
        \A i \in Answered :
            /\ ResultOf(i).score \in 0..100
            /\ (NotBlank(ResponseOf(i)) /\ Unclamped(i) < 0) => ResultOf(i).score = 0

\* C1 witness: a validated response whose penalties sum to more than 100.
C1_Witness ==
    /\ Validated
    /\ \E i \in Answered :
          NotBlank(ResponseOf(i)) /\ Unclamped(i) < 0 /\ ResultOf(i).score = 0

\* the status the claim's thresholds give a score
Banded(r) ==
    \/ r.score >= 90 /\ r.status = "EXCELLENT"
    \/ r.score \in 75..89 /\ r.status = "GOOD"
    \/ r.score \in 60..74 /\ r.status = "NEEDS_WORK"
    \/ r.score < 60 /\ r.status = "POOR"

\* C2, as amended: every response that holds a non-whitespace character gets
\* its status from the clamped score alone, >= 90 EXCELLENT, 75..89 GOOD,
\* 60..74 NEEDS_WORK, below 60 POOR, and never ERROR.
C2_StatusBands ==
    Validated => \A i \in Answered : NotBlank(ResponseOf(i)) => Banded(ResultOf(i))

\* C2 as stated: every non-empty response gets its status from the score by
\* the thresholds, and never gets ERROR.
C2_NonEmptyNeverError ==
    Validated => \A i \in Answered : ResponseOf(i) # "" => Banded(ResultOf(i))

\* C2 witness: a report with a section of score 90 (EXCELLENT) and one of
\* score 89 (GOOD).
C2_Witness ==
    /\ Validated
    /\ \E i, j \in Answered :
          /\ ResultOf(i).score = 90 /\ ResultOf(i).status = "EXCELLENT"
          /\ ResultOf(j).score = 89 /\ ResultOf(j).status = "GOOD"

\* C3: an empty or whitespace-only response gets exactly the one error
\* "Section is empty", no warning, score 0 and status ERROR.
C3_EmptyShortCircuits ==
    Validated =>
        \A i \in Answered :
            ~NotBlank(ResponseOf(i)) =>
                ResultOf(i) = [errors |-> <<"Section is empty">>, warnings |-> <<>>,
                               score |-> 0, status |-> "ERROR"]

\* C3 witness: a whitespace-only response was validated.
C3_Witness ==
    /\ Validated
    /\ \E i \in Answered : ResponseOf(i) = "  " /\ ResultOf(i).status = "ERROR"

\* the responses that are not empty, and the sum of their scores
NonEmpty == {i \in Answered : NotBlank(ResponseOf(i))}
ScoreSum == SumSeq([i \in Answered |-> IF i \in NonEmpty THEN ResultOf(i).score ELSE 0])

\* tenths is total/n rounded to one decimal
IsMeanInTenths(tenths, total, n) ==
    LET diff == 10 * total - tenths * n
    IN  2 * (IF diff < 0 THEN -diff ELSE diff) <= n

\* C4, as amended: average_score is the mean, to one decimal, of the scores
\* of the non-empty sections alone; empty sections count neither in the sum
\* nor in the denominator, and the average is 0 when every section is empty.
C4_MeanOfNonEmpty ==
    Validated =>
        IF NonEmpty = {} THEN report.summary.average_score = 0
        ELSE IsMeanInTenths(report.summary.average_score, ScoreSum, Cardinality(NonEmpty))

\* C4 as stated: average_score is the sum of the scores of the non-empty
\* sections over the number n of all sections, the empty ones included.
C4_MeanOverAllSections ==
    Validated =>
        IF Answered = {} THEN report.summary.average_score = 0
        ELSE IsMeanInTenths(report.summary.average_score, ScoreSum, Cardinality(Answered))

\* C4 witness: a report over an empty and a non-empty section.
C4_Witness ==
    /\ Validated
    /\ NonEmpty # {}
    /\ NonEmpty # Answered
    /\ report.summary.average_score > 0

\* the returned Datasets, by call
Returns == 1..Len(returned)

\* C5: parse() returns an equal Dataset each time it is called on the same
\* parser over the unchanged table.
C5_ParseIdempotent == \A i, j \in Returns : returned[i] = returned[j]

\* C6: constructing the validator on a Dataset parse() returned and
\* validating never raises, and the report holds a result for every section.
C6_ValidationNeverThrows ==
    /\ call \in {"ReviewValidator", "validate_full_review"} => raised = "none"
    /\ Validated =>
          /\ Len(report.sections) = Len(responses)
          /\ \A i \in Answered : report.sections[i].name = responses[i].section

\* the lines of the table that give a value for Title and Parent Objective Title
Complete(line) ==
    \A i \in 1..Len(Header) :
        Header[i] \in {"Title", "Parent Objective Title"} => i <= Len(line)
WithoutPartial(file) ==
    [file EXCEPT !.rows =
        LET keep == SelectIdx(file.rows, LAMBDA i : Complete(file.rows[i]))
        IN  [n \in 1..Len(keep) |-> file.rows[keep[n]]]]

\* C7: on a table with a row that lacks Title or Parent Objective Title,
\* parse() does not raise and groups the other rows as if the partial row
\* were not there.
C7_PartialRowAbsorbed ==
    (call = "parse" /\ calls = 1 /\ csv.exists) =>
        /\ raised = "none"
        /\ objectives = ParseSteps(NewParser, WithoutPartial(csv)).objectives

\* the rows that have a title and a parent category, trimmed
Trimmed(row) == [title |-> Strip(Get(row, "Title", "")),
                 parent |-> Strip(Get(row, "Parent Objective Title", ""))]
Grouped == SelectIdx(raw_data, LAMBDA i : Trimmed(raw_data[i]).title # ""
                                        /\ Trimmed(raw_data[i]).parent # "")
\* the rows of category c, in source row order
RowsOf(c) == SelectIdx(raw_data, LAMBDA i : Trimmed(raw_data[i]).title # ""
                                          /\ Trimmed(raw_data[i]).parent = c)
\* the categories in the order of their first appearance
FirstSeen ==
    LET first == SelectIdx(Grouped, LAMBDA n :
                    \A m \in 1..(n - 1) :
                        Trimmed(raw_data[Grouped[m]]).parent # Trimmed(raw_data[Grouped[n]]).parent)
    IN  [n \in 1..Len(first) |-> Trimmed(raw_data[Grouped[first[n]]]).parent]

\* C8: after grouping, every category has an objective, the objectives of a
\* category are exactly its rows in source order, and the categories come in
\* the order of their first appearance.
C8_GroupingExact ==
    (call = "parse" /\ raised = "none") =>
        /\ \A i \in 1..Len(objectives) : objectives[i].items # <<>>
        /\ ObjKeys(objectives) = FirstSeen
        /\ \A i \in 1..Len(objectives) :
              LET rows == RowsOf(objectives[i].key)
              IN  objectives[i].items =
                     [n \in 1..Len(rows) |->
                         Objective(raw_data[rows[n]], Trimmed(raw_data[rows[n]]).title)]

\* the whole of text is one match of pattern k
FullMatch(k, text) == MatchFrom(role_patterns[k], 1, text, 1) = Len(text) + 1
\* pattern k matches somewhere in text
Matches(k, text) == \E i \in 1..(Len(text) + 1) : MatchFrom(role_patterns[k], 1, text, i) # 0
Matching(text) == {k \in 1..Len(role_patterns) : Matches(k, text)}

\* C9: the inferred role is an uppercase form of the earliest pattern of the
\* list that matches the text, wherever the matches lie, and it is UNKNOWN if
\* and only if no pattern matches.
C9_RoleFirstMatchWins ==
    (call = "parse" /\ raised = "none" /\ metadata.present) =>
        LET text == RoleText(raw_data[1])
        IN  /\ metadata.role = "UNKNOWN" <=> Matching(text) = {}
            /\ Matching(text) # {} =>
                  /\ FullMatch(Min(Matching(text)), metadata.role)
                  /\ metadata.role = Upper(metadata.role)
                  /\ Contains(text, Lower(metadata.role))

\* C9 witness: two patterns match and the later one of the list lies first
\* in the text.
C9_Witness ==
    /\ call = "parse" /\ raised = "none" /\ metadata.present
    /\ LET text == RoleText(raw_data[1])
       IN  /\ Cardinality(Matching(text)) = 2
           /\ \E k \in Matching(text) :
                 /\ k # Min(Matching(text))
                 /\ Search(role_patterns[k], text, 1).start
                       < Search(role_patterns[Min(Matching(text))], text, 1).start
           /\ FullMatch(Min(Matching(text)), metadata.role)

\* section i holds exactly 45 words and neither the role nor the team, both known
Is45WithoutRoleAndTeam(i) ==
    /\ NotBlank(ResponseOf(i))
    /\ WordCount(ResponseOf(i)) = 45
    /\ validator.role # "UNKNOWN" /\ ~Contains(ResponseOf(i), validator.role)
    /\ validator.team # "" /\ ~Contains(ResponseOf(i), validator.team)

RoleError == "Response must mention role: '" \o validator.role \o "'"
TeamError == "Response must mention team: '" \o validator.team \o "'"
Short45Warning == "Response is short (45 words). Aim for 80-150 words."

\* C10, as amended: a response of exactly 45 words without the role and the
\* team gets exactly two errors (missing role, missing team) and the length
\* warning, and, no other check firing, the score 100 - 5 - 15 - 15 = 65.
C10_TwoErrorsAndWarning ==
    Validated =>
        \A i \in Answered :
            Is45WithoutRoleAndTeam(i) =>
                /\ ResultOf(i).errors = <<RoleError, TeamError>>
                /\ ResultOf(i).warnings # <<>>
                /\ ResultOf(i).warnings[1] = Short45Warning
                /\ Len(ResultOf(i).warnings) = 1 => ResultOf(i).score = 65

\* C10 as stated: such a response gets at least three errors (short length,
\* missing role, missing team) and, no other check firing, the score 50.
C10_ThreeErrors ==
    Validated =>
        \A i \in Answered :
            Is45WithoutRoleAndTeam(i) =>
                /\ Len(ResultOf(i).errors) >= 3
                /\ (Len(ResultOf(i).errors) = 3 /\ ResultOf(i).warnings = <<>>)
                      => ResultOf(i).score = 50

\* C10 witness: such a response on which no other check fires.
C10_Witness ==
    /\ Validated
    /\ \E i \in Answered :
          /\ Is45WithoutRoleAndTeam(i)
          /\ Len(ResultOf(i).warnings) = 1
          /\ ResultOf(i).score = 65

-----------------------------------------------------------------------------
(* Claims on the Dataset *)

\* the summary of Dataset d agrees with d
SummaryAgrees(d) ==
    LET counts == d.summary.category_counts
    IN  /\ d.summary.total_objectives = SumSeq([k \in 1..Len(counts) |-> counts[k].count])
        /\ d.summary.total_objectives =
              SumSeq([k \in 1..Len(d.objectives) |-> Len(d.objectives[k].items)])
        /\ d.summary.categories = ObjKeys(d.objectives)
        /\ d.summary.metrics_count = Len(d.metrics)
        /\ d.summary.technologies_count = Len(d.technologies)

\* C11: the summary of every Dataset parse() returned agrees with the
\* Dataset, when it is returned and after any later parse() or
\* print_summary() on the same parser.
C11_SummaryConsistent ==
    \A i \in Returns : SummaryAgrees(returned[i]) /\ SummaryAgrees(Held(i))

\* the fields of an Objective and the columns they are read from
ObjectiveColumns ==
    {<<"state", "State">>, <<"start_date", "Start Date">>, <<"due_date", "Due Date">>,
     <<"progress", "Progress %">>, <<"status", "Status">>}

\* every objective of the index has value in the field of each column the table lacks
AbsentColumnsRead(Default(_)) ==
    \A fc \in ObjectiveColumns :
        fc[2] \notin Range(csv.header) =>
            \A k \in 1..Len(objectives) : \A n \in 1..Len(objectives[k].items) :
                objectives[k].items[n][fc[1]] = Default(fc[1])

\* the rows of the table are as long as its header
NoShortRow == \A i \in 1..Len(csv.rows) : csv.rows[i] = <<>> \/ Len(csv.rows[i]) >= Len(csv.header)

AllTitles == Join(" ", [i \in 1..Len(raw_data) |-> Get(raw_data[i], "Title", "")])

\* C20: the technologies of a Dataset are strictly ascending in the order of
\* their spelling, all of the vocabulary, exactly the vocabulary names that
\* occur in the joined titles whatever their case, and the same on every
\* later detection over the same titles.
C20_TechnologiesSortedSet ==
    \A i \in Returns :
        LET techs == returned[i].technologies
        IN  /\ \A n \in 1..(Len(techs) - 1) : StrLess(techs[n], techs[n + 1])
            /\ Range(techs) \subseteq Range(tech_keywords)
            /\ \A k \in 1..Len(tech_keywords) :
                  tech_keywords[k] \in Range(techs)
                     <=> Contains(Lower(AllTitles), Lower(tech_keywords[k]))
            /\ techs = returned[1].technologies

\* C20 witness: detection ran twice and found three names, one written in
\* lower case in the titles.
C20_Witness ==
    /\ Len(returned) = 2
    /\ Len(returned[2].technologies) = 3
    /\ "Kafka" \in Range(returned[2].technologies)
    /\ ~Contains(AllTitles, "Kafka")

-----------------------------------------------------------------------------
(* Claims on the checks of validate_section *)

Checked == call = "validate_section"

\* how many messages of msgs begin with prefix
CountOf(msgs, prefix) == Cardinality({i \in 1..Len(msgs) : StartsWith(msgs[i], prefix)})

\* the messages of the checks, by how they begin, in the order of the
\* checks, with the penalty of each
MessageKinds == <<
    [prefix |-> "Response too short",                   penalty |-> 20],
    [prefix |-> "Response is short",                    penalty |-> 5],
    [prefix |-> "Response is long",                     penalty |-> 5],
    [prefix |-> "Response must mention role",           penalty |-> 15],
    [prefix |-> "Response must mention team",           penalty |-> 15],
    [prefix |-> "Response should start with",           penalty |-> 10],
    [prefix |-> "No metrics found",                     penalty |-> 10],
    [prefix |-> "Consider adding more specific metrics", penalty |-> 5],
    [prefix |-> "Generic phrase detected",              penalty |-> 3],
    [prefix |-> "No specific technologies",             penalty |-> 8],
    [prefix |-> "Vary sentence lengths",                penalty |-> 3],
    [prefix |-> "Avoid starting multiple sentences",    penalty |-> 5],
    [prefix |-> "Include specific numbers",             penalty |-> 10],
    [prefix |-> "Use active voice",                     penalty |-> 5] >>

KindOf(msg) == CHOOSE k \in 1..Len(MessageKinds) : StartsWith(msg, MessageKinds[k].prefix)

\* the penalties of the messages of msgs, summed
PenaltySum(msgs) == SumSeq([i \in 1..Len(msgs) |-> MessageKinds[KindOf(msgs[i])].penalty])

\* the score is 100 less the penalty of every message, and not below 0
ScoreIsPenalised ==
    checked.score = Max({0, 100 - PenaltySum(checked.errors) - PenaltySum(checked.warnings)})

\* C13: the length check appends one error (penalty 20) below 40 words, one
\* warning (penalty 5) from 40 to 59 words, one warning (penalty 5) above 200
\* words and nothing from 60 to 200 words, by the word count alone.
C13_LengthBands ==
    Checked =>
        LET w == WordCount(checked.response)
            One(cond) == IF cond THEN 1 ELSE 0
        IN  /\ CountOf(checked.errors, "Response too short") = One(w < 40)
            /\ CountOf(checked.warnings, "Response is short") = One(w >= 40 /\ w <= 59)
            /\ CountOf(checked.warnings, "Response is long") = One(w > 200)
            /\ CountOf(checked.warnings, "Response too short") = 0
            /\ CountOf(checked.errors, "Response is short") = 0
            /\ CountOf(checked.errors, "Response is long") = 0
            /\ ScoreIsPenalised

\* C13 witness: a response of exactly 40 words got the warning and no error.
C13_Witness ==
    /\ Checked
    /\ WordCount(checked.response) = 40
    /\ CountOf(checked.warnings, "Response is short") = 1
    /\ CountOf(checked.errors, "Response too short") = 0
    /\ checked.score > 0

\* C14: the role error (penalty 15) is raised exactly when the role is not
\* UNKNOWN and does not occur verbatim in the response, the team error
\* (penalty 15) exactly when the team is not empty and does not occur
\* verbatim.
C14_RoleAndTeamErrors ==
    Checked =>
        /\ CountOf(checked.errors, "Response must mention role") =
              (IF validator.role # "UNKNOWN" /\ ~Contains(checked.response, validator.role)
               THEN 1 ELSE 0)
        /\ CountOf(checked.errors, "Response must mention team") =
              (IF validator.team # "" /\ ~Contains(checked.response, validator.team)
               THEN 1 ELSE 0)
        /\ CountOf(checked.warnings, "Response must mention") = 0
        /\ ScoreIsPenalised

\* C14 witness: the role and the team occur in another case only, and both
\* errors are raised.
C14_Witness ==
    /\ Checked
    /\ validator.role # "UNKNOWN" /\ validator.team # ""
    /\ Contains(Lower(checked.response), Lower(validator.role))
    /\ Contains(Lower(checked.response), Lower(validator.team))
    /\ CountOf(checked.errors, "Response must mention role") = 1
    /\ CountOf(checked.errors, "Response must mention team") = 1
    /\ checked.score > 0

\* the entries of the dataset's metric texts that occur in the response
MetricsFound ==
    Cardinality({k \in 1..Len(validator.metrics_texts) :
                   Contains(checked.response, validator.metrics_texts[k])})
\* the distinct metric texts that occur in the response
DistinctMetricsFound ==
    Cardinality({m \in Range(validator.metrics_texts) : Contains(checked.response, m)})
MetricRelevant ==
    checked.section \in Range(metric_sections) /\ validator.metrics_texts # <<>>

\* C15: in a metric section with a dataset that has metrics, no metric text
\* found gives the strong warning alone (penalty 10), exactly one found the
\* weak warning alone (penalty 5), two or more neither; elsewhere the check
\* gives nothing.
C15_MetricWarnings ==
    Checked =>
        /\ CountOf(checked.warnings, "No metrics found") =
              (IF MetricRelevant /\ MetricsFound = 0 THEN 1 ELSE 0)
        /\ CountOf(checked.warnings, "Consider adding more specific metrics") =
              (IF MetricRelevant /\ MetricsFound = 1 THEN 1 ELSE 0)
        /\ ScoreIsPenalised

\* C15 witness: exactly one of three different metric texts occurs and the
\* weak warning is the only one of the check.
C15_Witness ==
    /\ Checked
    /\ MetricRelevant
    /\ MetricsFound = 1
    /\ Len(validator.metrics_texts) = 3
    /\ CountOf(checked.warnings, "Consider adding more specific metrics") = 1
    /\ CountOf(checked.warnings, "No metrics found") = 0
    /\ checked.score > 0

\* C16: when exactly one distinct metric text of the dataset occurs in the
\* response, the weak warning is raised, however often that text is in the
\* dataset's metrics list.
C16_DistinctMetricTexts ==
    (Checked /\ MetricRelevant /\ DistinctMetricsFound = 1) =>
        CountOf(checked.warnings, "Consider adding more specific metrics") = 1

\* how often phrase occurs in text
Occurrences(text, phrase) ==
    Cardinality({i \in 1..(Len(text) - Len(phrase) + 1) :
                   SubSeq(text, i, i + Len(phrase) - 1) = phrase})
PassiveTotal ==
    SumSeq([k \in 1..Len(passive_indicators) |->
               Occurrences(Lower(checked.response), Lower(passive_indicators[k]))])

\* C17: the passive-voice warning is raised exactly when the occurrences of
\* the four passive phrases in the response, in any case, total more than 2.
C17_PassiveOccurrences ==
    Checked => (CountOf(checked.warnings, "Use active voice") = 1 <=> PassiveTotal > 2)

\* the pieces of the response between ". " that are not blank
Pieces == SplitOn(checked.response, ". ")
NonEmptyPieces == {n \in 1..Len(Pieces) : NotBlank(Pieces[n])}

\* C18: the sentence-variety warning is raised exactly when the response
\* splits on ". " into at least 3 non-empty sentences that all have the
\* same word count.
C18_VarietyOfNonEmpty ==
    Checked =>
        (CountOf(checked.warnings, "Vary sentence lengths") = 1
            <=> /\ Cardinality(NonEmptyPieces) >= 3
                /\ \A m, n \in NonEmptyPieces : WordCount(Pieces[m]) = WordCount(Pieces[n]))

\* the place of a message in the canonical order: its check, and for a
\* generic phrase the place of the phrase among the phrases
PhraseOf(msg) ==
    CHOOSE k \in 1..Len(generic_phrases) :
        StartsWith(msg, "Generic phrase detected: '" \o generic_phrases[k].phrase \o "'")
PlaceOf(msg) ==
    100 * KindOf(msg)
       + (IF StartsWith(msg, "Generic phrase detected") THEN PhraseOf(msg) ELSE 0)
InOrder(msgs) == \A i \in 1..(Len(msgs) - 1) : PlaceOf(msgs[i]) < PlaceOf(msgs[i + 1])

\* C19: the errors and the warnings of a section come in the canonical
\* order of the checks, the generic phrases in the order of the phrases.
C19_CanonicalOrder ==
    Checked => InOrder(checked.errors) /\ InOrder(checked.warnings)

\* C19 witness: three errors, and warnings of at least six checks with
\* several generic phrases among them.
C19_Witness ==
    /\ Checked
    /\ Len(checked.errors) = 3
    /\ CountOf(checked.warnings, "Generic phrase detected") >= 2
    /\ Cardinality({KindOf(checked.warnings[i]) : i \in 1..Len(checked.warnings)}) >= 6
    /\ CountOf(checked.warnings, "Include specific numbers") = 1
    /\ CountOf(checked.warnings, "Use active voice") = 1

-----------------------------------------------------------------------------
(* Claims on the totals of the report *)

\* the errors and the warnings the sections of the report list
ErrorsListed == SumSeq([i \in Answered |-> Len(ResultOf(i).errors)])
WarningsListed == SumSeq([i \in Answered |-> Len(ResultOf(i).warnings)])

\* C24: in every report, total_errors is the sum of the lengths of the errors
\* lists of all its sections and total_warnings the sum of the lengths of
\* their warnings lists, the sections with an empty response included.
C24_TotalsCountEverySection ==
    Validated =>
        /\ report.summary.total_errors = ErrorsListed
        /\ report.summary.total_warnings = WarningsListed

-----------------------------------------------------------------------------
(* Claims on the metrics *)

\* the title of row i, and the matches of pattern k in it, left to right
TitleOf(i) == Get(raw_data[i], "Title", "")
MatchesOf(i, k) == FindIter(metric_patterns[k], TitleOf(i), 1)

\* one triple per row, pattern and match of the pattern in the row's title
MetricTriples ==
    UNION {{<<i, k, n>> : n \in 1..Len(MatchesOf(i, k))} :
              i \in 1..Len(raw_data), k \in 1..Len(metric_patterns)}

\* by row, then by pattern, then left to right
Before(t, u) ==
    \/ t[1] < u[1]
    \/ t[1] = u[1] /\ t[2] < u[2]
    \/ t[1] = u[1] /\ t[2] = u[2] /\ t[3] < u[3]

\* the place of triple t in that order
RankOf(t) == Cardinality({u \in MetricTriples : Before(u, t)}) + 1

\* the texts of the metrics taken from the title full_context, in list order
TextsFrom(full_context) ==
    LET from == SelectIdx(metrics, LAMBDA n : metrics[n].full_context = full_context)
    IN  [n \in 1..Len(from) |-> metrics[from[n]].text]

RangeTitle == "99.4% to 99.73%"

\* C21: the metrics list has one entry per row, pattern and match, ordered by
\* row, then by pattern, then left to right in the title, nothing removed;
\* the title "99.4% to 99.73%" yields the range entry and, later, the entries
\* "99.4%" and "99.73%".
C21_MetricsPerMatch ==
    (call = "parse" /\ raised = "none") =>
        /\ Len(metrics) = Cardinality(MetricTriples)
        /\ \A t \in MetricTriples :
              metrics[RankOf(t)] =
                  [text |-> Group0(TitleOf(t[1]), MatchesOf(t[1], t[2])[t[3]]),
                   full_context |-> TitleOf(t[1])]
        /\ (\E i \in 1..Len(raw_data) : TitleOf(i) = RangeTitle) =>
              TextsFrom(RangeTitle) = <<RangeTitle, "99.4%", "99.73%">>

\* generate() returned its prompts
Generated == call = "generate" /\ raised = "none"

\* the places of the list where a metric text occurs for the first time
FirstOccurrences ==
    SelectIdx(data.metrics, LAMBDA n :
        \A m \in 1..(n - 1) : data.metrics[m].text # data.metrics[n].text)

\* what is shown for the metric at place n: its text and the first 80
\* characters of its own context
Shown(n) ==
    "- " \o data.metrics[n].text \o " (from: "
         \o FirstN(data.metrics[n].full_context, 80) \o "...)"

\* the lines of the formatted metrics
OutputLines == SplitOn(generator.prompt_metrics, "\n")

\* C22, as amended: for a non-empty metrics list the formatted output is the
\* entries of the first 15 distinct metric texts joined by line breaks, in
\* the order of each text's first occurrence and with the context of that
\* occurrence; later distinct texts are left out; for an empty list it is the
\* one line "No quantitative metrics found.".
C22_FirstFifteenDistinct ==
    Generated =>
        IF data.metrics = <<>>
        THEN generator.prompt_metrics = "No quantitative metrics found."
        ELSE generator.prompt_metrics =
                 Join("\n", [n \in 1..Len(FirstN(FirstOccurrences, 15)) |->
                                Shown(FirstOccurrences[n])])

\* C22 as stated: for any metrics list the formatted output has exactly one
\* line per distinct metric text, in the order of first occurrence, with the
\* context of the first occurrence.
C22_OneLinePerDistinctText ==
    Generated =>
        /\ Len(OutputLines) = Len(FirstOccurrences)
        /\ \A n \in 1..Len(FirstOccurrences) : OutputLines[n] = Shown(FirstOccurrences[n])

\* C22 witness: a list of more than 15 distinct texts in which a text comes
\* again under another context, formatted into 15 lines.
C22_Witness ==
    /\ Generated
    /\ Len(FirstOccurrences) > 15
    /\ \E m, n \in 1..Len(data.metrics) :
          /\ m < n
          /\ data.metrics[m].text = data.metrics[n].text
          /\ data.metrics[m].full_context # data.metrics[n].full_context
    /\ Len(OutputLines) = 15
    /\ OutputLines[2] = "- 2% (from: 1% 2% 3% 4% 5% 6% 7% 8% 9% 1%...)"

-----------------------------------------------------------------------------
(* Claims on the role in generate() *)

\* parse() returned in the last generate()
ParsedInGenerate == call = "generate" /\ raised \in {"none", "KeyError", "EOFError"}

\* the role the parser inferred in that call ("" on an empty table, whose
\* metadata has no role)
InferredRole == returned[Len(returned)].metadata.role

\* the role after the override step
RoleAfterOverride ==
    IF generator.override_role \notin {None, ""} THEN generator.override_role
    ELSE InferredRole

\* C23: in generate() a non-empty role of the caller replaces the inferred
\* one; the user is asked exactly when the role is UNKNOWN after that step;
\* an empty answer sets SD2, another answer sets itself, trimmed; in every
\* other case the role is the inferred one.
C23_RoleChangesByOverrideOrFallback ==
    ParsedInGenerate =>
        /\ generator.asked <=> (RoleAfterOverride = "UNKNOWN")
        /\ data.metadata.role =
              (IF ~generator.asked THEN RoleAfterOverride
               ELSE IF generator.answer = None THEN "UNKNOWN"
               ELSE IF Strip(generator.answer) = "" THEN "SD2"
               ELSE Strip(generator.answer))
        /\ (~generator.asked /\ generator.override_role \in {None, ""}) =>
              data.metadata.role = InferredRole

\* C23 witness: the caller's role UNKNOWN replaced the inferred SD3, the user
\* was asked and answered with an empty line, and the role is SD2.
C23_Witness ==
    /\ Generated
    /\ InferredRole = "SD3"
    /\ generator.override_role = "UNKNOWN"
    /\ generator.asked
    /\ generator.answer = ""
    /\ data.metadata.role = "SD2"

-----------------------------------------------------------------------------
(* Claims on the numeric evidence *)

\* the response holds no digit
NoDigit == \A i \in 1..Len(checked.response) : Chr(checked.response, i) \notin DigitChars

\* every metric text of the dataset holds a digit
TextsHoldDigits ==
    \A k \in 1..Len(validator.metrics_texts) :
        \E i \in 1..Len(validator.metrics_texts[k]) :
            Chr(validator.metrics_texts[k], i) \in DigitChars

StrongWarnings == CountOf(checked.warnings, "No metrics found")
WeakWarnings == CountOf(checked.warnings, "Consider adding more specific metrics")
EvidenceWarnings == CountOf(checked.warnings, "Include specific numbers")

\* C25, as amended: in a metric section, with a dataset that has at least
\* one metric and whose metric texts all hold a digit, a response without a
\* digit gets both the strong metric warning and the numeric-evidence
\* warning (10 each), and the weak metric warning never comes with the
\* numeric-evidence warning; with a dataset without metrics such a response
\* gets the numeric-evidence warning alone.
C25_EvidenceWithMetrics ==
    (Checked /\ checked.section \in Range(metric_sections) /\ TextsHoldDigits) =>
        /\ (NoDigit /\ validator.metrics_texts # <<>>) =>
              StrongWarnings = 1 /\ EvidenceWarnings = 1
        /\ (NoDigit /\ validator.metrics_texts = <<>>) =>
              StrongWarnings = 0 /\ EvidenceWarnings = 1
        /\ ~(WeakWarnings > 0 /\ EvidenceWarnings > 0)
        /\ EvidenceWarnings = (IF NoDigit THEN 1 ELSE 0)
        /\ ScoreIsPenalised

\* C25 as stated: in a metric section, with a dataset whose metric texts all
\* hold a digit, a response without a digit gets both warnings, and the weak
\* metric warning never comes with the numeric-evidence warning.
C25_EvidenceImpliesNoMetrics ==
    (Checked /\ checked.section \in Range(metric_sections) /\ TextsHoldDigits) =>
        /\ NoDigit => (StrongWarnings = 1 /\ EvidenceWarnings = 1)
        /\ ~(WeakWarnings > 0 /\ EvidenceWarnings > 0)

\* C25 witness: a response without a digit, checked in a metric section
\* against a dataset with metrics, has both warnings.
C25_Witness ==
    /\ Checked
    /\ MetricRelevant
    /\ TextsHoldDigits
    /\ NoDigit
    /\ StrongWarnings = 1
    /\ EvidenceWarnings = 1
    /\ WeakWarnings = 0
    /\ checked.score > 0

====
